---- MODULE Spec2Model ----
(***************************************************************************)
(* Browser Use Agent demo: the Streamlit "Run Task" handlers (app.py and   *)
(* scratch/basic_usage.py), the LLM factory get_llm (example.py) and the   *)
(* GIF post-processing routine speed_up_gif (app.py).                      *)
(*                                                                         *)
(* A Streamlit script is re-executed from the top on every button click,   *)
(* so every click starts from an empty page.  The only suspension point of *)
(* a handler is asyncio.run(agent.run()): pc = "running" while the caller  *)
(* is blocked there.                                                       *)
(***************************************************************************)
EXTENDS Integers, Sequences, FiniteSets, TLC

VARIABLES
    pc,          \* "idle" | "running" (blocked in asyncio.run) | "gif" (SpecGif only)
    script,      \* the script being executed: "app" | "basic" | "none"
    task,        \* value of the task text input at the click
    gif_file,    \* the file agent_history.gif in the working directory
    ui,          \* every Streamlit write of the current script run, in call order
    calls,       \* every call to a collaborator (LLM, Agent, os, GIF) of the run, in order
    history,     \* <<>>, or <<b>> when asyncio.run(agent.run()) returned b
    run_exc,     \* <<>>, or <<e>> when asyncio.run(agent.run()) raised e
    unhandled    \* <<>>, or <<e>> when exception e escaped the script run

vars == <<pc, script, task, gif_file, ui, calls, history, run_exc, unhandled>>

----------------------------------------------------------------------------
(* Bounds of the model *)

\* longest urls / action_names / extracted_content / model_actions list
MaxLen == 2
\* most frames of an animation handed to speed_up_gif
MaxFrames == 3
\* largest speed factor tried
MaxFactor == 3

(* Program constants *)

\* info.get('duration', 100)
DefaultDuration == 100
\* speed_factor=2 at both call sites
SpeedFactor == 2
\* loop=0: loop forever
LoopForever == 0

GIF_PATH == "agent_history.gif"
NA == "N/A"
NO_RESULT == "No result"

----------------------------------------------------------------------------
(* Generic helpers *)

Range(s) == {s[i] : i \in 1..Len(s)}

SeqsUpTo(S, n) == UNION {[1..k -> S] : k \in 0..n}

Max2(a, b) == IF a >= b THEN a ELSE b

\* Python's built-in max over four integers
Max4(a, b, c, d) == Max2(Max2(a, b), Max2(c, d))

\* FloorDiv gone wrong: rounds up instead of down
CeilDiv(a, b) == (a + b - 1) \div b

\* Python's `//` for a positive divisor: floor division
FloorDiv(a, b) == a \div b

Call(op, arg, ret) == [op |-> op, arg |-> arg, ret |-> ret]

Write(target, el, text) == [target |-> target, el |-> el, text |-> text]

Exc(type, msg) == [type |-> type, msg |-> msg]

\* str(e)
str(e) == e.msg

----------------------------------------------------------------------------
(* Inputs *)

Tasks == {"", "go"}
AppModelTypes == {"gemini", "openai"}
\* values of the LLM_TYPE environment variable; <<>> is "unset"
EnvLlmTypes == {<<>>, <<"openai">>, <<"Gemini">>}

ActionNames == {"click", "done"}
Urls == {"u1"}
Contents == {"hello", "world"}
ModelActions == {"{}"}
\* history.errors(): none, or one recorded error
ErrorLists == {<<>>, <<"boom">>}
\* history.screenshots(): none, or more of them than any other list has entries
ScreenshotLists == {<<>>, [i \in 1..(MaxLen + 1) |-> "s.png"]}

\* what history.urls(), .screenshots(), ... return
Bundles ==
    [urls : SeqsUpTo(Urls, MaxLen),
     screenshots : ScreenshotLists,
     action_names : SeqsUpTo(ActionNames, MaxLen),
     extracted_content : SeqsUpTo(Contents, MaxLen),
     errors : ErrorLists,
     model_actions : SeqsUpTo(ModelActions, MaxLen)]

\* str(e) of what agent.run() may raise
RunErrors == {Exc("RuntimeError", "browser crashed"), Exc("TimeoutError", "timed out")}

\* a frame: its pixels and its info dictionary (with or without 'duration')
Pixels == {"p", "q"}
Durations == {0, 1, 3, 100}
Frame(px, info) == [pixels |-> px, info |-> info]
Frames == {Frame(px, [duration |-> d]) : px \in Pixels, d \in Durations}
              \cup {Frame(px, <<>>) : px \in Pixels}

NoFile == [exists |-> FALSE, decodable |-> FALSE, frames |-> <<>>]
BadFile == [exists |-> TRUE, decodable |-> FALSE, frames |-> <<>>]
GifOf(fs) == [exists |-> TRUE, decodable |-> TRUE, frames |-> fs]
SampleGif ==
    GifOf(<<Frame("p", [duration |-> 100]), Frame("q", [duration |-> 100]),
            Frame("p", [duration |-> 100])>>)

\* agent_history.gif after a run: left as it was, or (re)written, possibly truncated
GifAfterRun(g) == {g, SampleGif, BadFile}

----------------------------------------------------------------------------
(* example.py *)

Returned(v, cs) == [ok |-> TRUE, value |-> v, exc |-> Exc("", ""), calls |-> cs]
Raised(e, cs) == [ok |-> FALSE, value |-> "", exc |-> e, calls |-> cs]

\* what a call of a function returns to its caller, with the calls it made
WithEntry(entry, r) ==
    [r EXCEPT !.calls = <<[entry EXCEPT !.ret = IF r.ok THEN r.value ELSE r.exc.type]>> \o @]

\* return ChatOpenAI(model="gpt-4o")
llm_openai(ctorOk) ==
    IF ctorOk
    THEN Returned("ChatOpenAI", <<Call("ChatOpenAI", "gpt-4o", "client")>>)
    ELSE Raised(Exc("ValidationError", "no api key"),
                <<Call("ChatOpenAI", "gpt-4o", "raised")>>)

\* setup_google_auth(); return ChatGoogleGenerativeAI(model="gemini-2.0-flash-exp", ...)
llm_gemini(authOk, ctorOk) ==
    IF ~authOk
    THEN Raised(Exc("TypeError", "no credentials file"),
                <<Call("setup_google_auth", "", "raised")>>)
    ELSE IF ctorOk
    THEN Returned("ChatGoogleGenerativeAI",
                  <<Call("setup_google_auth", "", "None"),
                    Call("ChatGoogleGenerativeAI", "gemini-2.0-flash-exp", "client")>>)
    ELSE Raised(Exc("ValidationError", "no api key"),
                <<Call("setup_google_auth", "", "None"),
                  Call("ChatGoogleGenerativeAI", "gemini-2.0-flash-exp", "raised")>>)

\* raise ValueError(f"Unknown model type: {model_type}")
llm_unknown(mt) == Raised(Exc("ValueError", "Unknown model type: " \o mt), <<>>)

\* get_llm gone wrong: matches the provider key without regard to case
get_llm_casefold(mt, authOk, ctorOk) ==
    WithEntry(Call("get_llm", mt, ""),
              IF mt \in {"openai", "OpenAI"} THEN llm_openai(ctorOk)
              ELSE IF mt \in {"gemini", "Gemini"} THEN llm_gemini(authOk, ctorOk)
              ELSE llm_unknown(mt))

\* get_llm(model_type).  authOk: setup_google_auth returns (the credentials file
\* is readable); ctorOk: the client constructor returns (the API key is present).
get_llm(mt, authOk, ctorOk) ==
    WithEntry(Call("get_llm", mt, ""),
              IF mt = "openai" THEN llm_openai(ctorOk)
              ELSE IF mt = "gemini" THEN llm_gemini(authOk, ctorOk)
              ELSE llm_unknown(mt))

\* os.getenv("LLM_TYPE", default)
getenv_LLM_TYPE(env, default) == IF env = <<>> THEN default ELSE env[1]

----------------------------------------------------------------------------
(* app.py: speed_up_gif *)

\* img.info.get('duration', 100)
info_get_duration(info) ==
    IF "duration" \in DOMAIN info THEN info["duration"] ELSE DefaultDuration

\* the encoded animation handed to frames[0].save(...)
Encoded(fs, durs, loop) == [frames |-> fs, duration |-> durs, loop |-> loop]

speed_up_gif(gif, speed_factor) ==
    IF ~gif.exists
    THEN Raised(Exc("FileNotFoundError", "No such file or directory: " \o GIF_PATH), <<>>)
    ELSE IF ~gif.decodable
    THEN Raised(Exc("UnidentifiedImageError", "cannot identify image file " \o GIF_PATH), <<>>)
    ELSE LET n == Len(gif.frames)
             durations == [f \in 1..n |-> info_get_duration(gif.frames[f].info)]
             frames == [f \in 1..n |-> gif.frames[f].pixels]
         IN Returned(Encoded(frames,
                             [f \in 1..n |-> FloorDiv(durations[f], speed_factor)],
                             LoopForever), <<>>)

----------------------------------------------------------------------------
(* app.py: rendering of the history returned by the run *)

\* final_extracted gone wrong: takes the first extract instead of the last
final_extracted_first(b) ==
    IF b.extracted_content # <<>> THEN b.extracted_content[1] ELSE NO_RESULT

\* final_extracted
final_extracted(b) ==
    IF b.extracted_content # <<>>
    THEN b.extracted_content[Len(b.extracted_content)]
    ELSE NO_RESULT

\* run_failed gone wrong: any recorded error fails the run, "done" or not
run_failed_any_error(b) == b.errors # <<>>

\* `errors and "done" not in action_names`
run_failed(b) == b.errors # <<>> /\ "done" \notin Range(b.action_names)

\* the banner written to final_result_container
status_banner(b) ==
    IF run_failed(b)
    THEN Write("final_result_container", "error", "Task Failed: " \o final_extracted(b))
    ELSE Write("final_result_container", "success",
               "Task Completed Successfully: " \o final_extracted(b))

\* steps_count gone wrong: counts the screenshots as well
steps_count_with_screenshots(b) ==
    Max2(Max4(Len(b.action_names), Len(b.extracted_content),
              Len(b.model_actions), Len(b.urls)), Len(b.screenshots))

steps_count(b) ==
    Max4(Len(b.action_names), Len(b.extracted_content),
         Len(b.model_actions), Len(b.urls))

\* at_or_na gone wrong: indexes from the end of the list
at_or_na_reversed(lst, i) == IF i < Len(lst) THEN lst[Len(lst) - i] ELSE NA

\* lst[i] if i < len(lst) else "N/A"   (i is 0-based)
at_or_na(lst, i) == IF i < Len(lst) THEN lst[i + 1] ELSE NA

\* the body of the loop for index i (0-based): six writes to the page
step_block(b, i) ==
    << Write("main", "markdown", "#### Step " \o ToString(i + 1)),
       Write("main", "markdown", "**Action:** " \o at_or_na(b.action_names, i)),
       Write("main", "markdown", "**URL:** " \o at_or_na(b.urls, i)),
       Write("main", "markdown", "**Extracted Content:** " \o at_or_na(b.extracted_content, i)),
       Write("main", "markdown", "**Model Action:** " \o at_or_na(b.model_actions, i)),
       Write("main", "divider", "") >>

\* for i in range(from, steps_count)
RECURSIVE steps_from(_, _)
steps_from(b, i) ==
    IF i >= steps_count(b) THEN <<>> ELSE step_block(b, i) \o steps_from(b, i + 1)

\* with st.expander("Debug View"): st.json({...})
debug_view(b) ==
    [target |-> "main", el |-> "expander/json", text |-> "Debug View",
     value |-> [urls |-> b.urls, screenshots |-> b.screenshots,
                action_names |-> b.action_names,
                extracted_content |-> b.extracted_content,
                errors |-> b.errors, model_actions |-> b.model_actions]]

\* the call speed_up_gif("agent_history.gif", speed_factor=k), as logged
GifCall(k, ret) == [op |-> "speed_up_gif", arg |-> GIF_PATH, ret |-> ret, speed_factor |-> k]

\* if os.path.exists("agent_history.gif"): markdown; speed_up_gif; image
gif_display(gif, heading, caption) ==
    IF ~gif.exists
    THEN [ui |-> <<>>, calls |-> <<Call("os.path.exists", GIF_PATH, "False")>>, raised |-> <<>>]
    ELSE LET r == speed_up_gif(gif, SpeedFactor)
             head == Write("gif_container", "markdown", heading)
             chk == Call("os.path.exists", GIF_PATH, "True")
         IN IF r.ok
            THEN [ui |-> <<head, [target |-> "gif_container", el |-> "image",
                                   text |-> caption, value |-> r.value]>>,
                  calls |-> <<chk, GifCall(SpeedFactor, "bytes")>>,
                  raised |-> <<>>]
            ELSE [ui |-> <<head>>,
                  calls |-> <<chk, GifCall(SpeedFactor, "raised")>>,
                  raised |-> <<r.exc>>]

\* except Exception as e: ...   (entered with what was written so far)
except_handler(e, gif) ==
    LET banner == Write("final_result_container", "error", "Task Failed: " \o str(e))
        gd == gif_display(gif, "### Task Execution (Failed)",
                          "Task execution steps before failure (2x speed)")
    IN IF gd.raised # <<>>
       THEN [ui |-> <<banner>> \o gd.ui, calls |-> gd.calls, unhandled |-> gd.raised]
       ELSE [ui |-> <<banner>> \o gd.ui
                     \o <<[target |-> "main", el |-> "expander/error",
                           text |-> "Debug View", value |-> str(e)]>>,
             calls |-> gd.calls, unhandled |-> <<>>]

\* the try body after asyncio.run returned history b, then the handler if it raised
on_run_returned(b, gif) ==
    LET shown == <<status_banner(b), Write("main", "markdown", "### Steps")>>
                    \o steps_from(b, 0) \o <<debug_view(b)>>
        gd == gif_display(gif, "### Task Execution", "Task execution steps (2x speed)")
    IN IF gd.raised = <<>>
       THEN [ui |-> shown \o gd.ui, calls |-> gd.calls, unhandled |-> <<>>]
       ELSE LET h == except_handler(gd.raised[1], gif)
            IN [ui |-> shown \o gd.ui \o h.ui, calls |-> gd.calls \o h.calls,
                unhandled |-> h.unhandled]

\* on_run_raised gone wrong: the handler runs the agent once more
on_run_raised_retry(e, gif) ==
    LET h == except_handler(e, gif)
    IN [h EXCEPT !.calls = <<Call("agent.run", "", "")>> \o @]

\* asyncio.run raised e: straight to the handler
on_run_raised(e, gif) == except_handler(e, gif)

----------------------------------------------------------------------------
(* app.py: the "Run Task" button *)

\* task_missing gone wrong: the validation is skipped
task_missing_never(t) == FALSE

\* `not task`
task_missing(t) == t = ""

\* final_result_container.empty(); agent_history_container.empty(); gif_container.empty()
clear_outputs ==
    << Write("final_result_container", "empty", ""),
       Write("agent_history_container", "empty", ""),
       Write("gif_container", "empty", "") >>

\* Agent(task=..., llm=...): returns, or raises when agentOk is false
make_agent(t, agentOk) ==
    IF agentOk
    THEN Returned("Agent", <<Call("Agent", t, "agent")>>)
    ELSE Raised(Exc("AgentError", "agent setup failed"), <<Call("Agent", t, "raised")>>)

Init ==
    /\ pc = "idle"
    /\ script = "none"
    /\ task = ""
    /\ gif_file \in {NoFile, SampleGif, BadFile}
    /\ ui = <<>>
    /\ calls = <<>>
    /\ history = <<>>
    /\ run_exc = <<>>
    /\ unhandled = <<>>

\* what the collaborators do during one click with provider key mt: all return,
\* or the one named raises (setup_google_auth, the client constructor, Agent)
Faults(mt) ==
    IF mt = "gemini" THEN {"none", "auth", "ctor", "agent"}
    ELSE IF mt = "openai" THEN {"none", "ctor", "agent"}
    ELSE {"none"}

\* a click on "Run Task" with no task entered
AppRunTaskEmpty ==
    /\ pc = "idle"
    /\ \E t \in Tasks :
         /\ task_missing(t)
         /\ task' = t
    /\ script' = "app"
    /\ ui' = <<Write("main", "error", "Please enter a task first!")>>
    /\ calls' = <<>>
    /\ history' = <<>>
    /\ run_exc' = <<>>
    /\ unhandled' = <<>>
    /\ pc' = "idle"
    /\ UNCHANGED gif_file

\* a click on "Run Task" with a task, up to the end of the script or to asyncio.run
AppRunTask ==
    /\ pc = "idle"
    /\ \E t \in Tasks, mt \in AppModelTypes : \E fault \in Faults(mt) :
         LET llm == get_llm(mt, fault # "auth", fault # "ctor")
             agent == make_agent(t, fault # "agent")
         IN /\ ~task_missing(t)
            /\ task' = t
            /\ ui' = clear_outputs
            /\ IF ~llm.ok
               THEN /\ calls' = llm.calls
                    /\ unhandled' = <<llm.exc>>
                    /\ pc' = "idle"
               ELSE IF ~agent.ok
               THEN /\ calls' = llm.calls \o agent.calls
                    /\ unhandled' = <<agent.exc>>
                    /\ pc' = "idle"
               ELSE /\ calls' = llm.calls \o agent.calls \o <<Call("agent.run", "", "")>>
                    /\ unhandled' = <<>>
                    /\ pc' = "running"
    /\ script' = "app"
    /\ history' = <<>>
    /\ run_exc' = <<>>
    /\ UNCHANGED gif_file

\* asyncio.run(agent.run()) returns a history; the rest of the script runs
AppRunReturns ==
    /\ pc = "running"
    /\ script = "app"
    /\ \E b \in Bundles, g \in GifAfterRun(gif_file) :
         LET r == on_run_returned(b, g)
         IN /\ gif_file' = g
            /\ history' = <<b>>
            /\ ui' = ui \o r.ui
            /\ calls' = calls \o r.calls
            /\ unhandled' = r.unhandled
    /\ pc' = "idle"
    /\ UNCHANGED <<script, task, run_exc>>

\* asyncio.run(agent.run()) raises; the handler and the rest of the script run
AppRunRaises ==
    /\ pc = "running"
    /\ script = "app"
    /\ \E e \in RunErrors, g \in GifAfterRun(gif_file) :
         LET r == on_run_raised(e, g)
         IN /\ gif_file' = g
            /\ run_exc' = <<e>>
            /\ ui' = ui \o r.ui
            /\ calls' = calls \o r.calls
            /\ unhandled' = r.unhandled
    /\ pc' = "idle"
    /\ UNCHANGED <<script, task, history>>

----------------------------------------------------------------------------
(* scratch/basic_usage.py: the "Run Task and Print Debug Output" button *)

\* except Exception as e: st.error(f"An error occurred: {str(e)}")
basic_error(e) == Write("main", "error", "An error occurred: " \o str(e))

BasicRunTaskEmpty ==
    /\ pc = "idle"
    /\ \E t \in Tasks :
         /\ task_missing(t)
         /\ task' = t
    /\ script' = "basic"
    /\ ui' = <<Write("main", "error", "Please enter a task first!")>>
    /\ calls' = <<>>
    /\ history' = <<>>
    /\ run_exc' = <<>>
    /\ unhandled' = <<>>
    /\ pc' = "idle"
    /\ UNCHANGED gif_file

BasicRunTask ==
    /\ pc = "idle"
    /\ \E t \in Tasks, env \in EnvLlmTypes : \E fault \in Faults(getenv_LLM_TYPE(env, "gemini")) :
         LET llm == get_llm(getenv_LLM_TYPE(env, "gemini"), fault # "auth", fault # "ctor")
             agent == make_agent(t, fault # "agent")
         IN /\ ~task_missing(t)
            /\ task' = t
            /\ IF ~llm.ok
               THEN /\ ui' = <<basic_error(llm.exc)>>
                    /\ calls' = llm.calls
                    /\ pc' = "idle"
               ELSE IF ~agent.ok
               THEN /\ ui' = <<basic_error(agent.exc)>>
                    /\ calls' = llm.calls \o agent.calls
                    /\ pc' = "idle"
               ELSE /\ ui' = <<>>
                    /\ calls' = llm.calls \o agent.calls \o <<Call("agent.run", "", "")>>
                    /\ pc' = "running"
    /\ script' = "basic"
    /\ history' = <<>>
    /\ run_exc' = <<>>
    /\ unhandled' = <<>>
    /\ UNCHANGED gif_file

\* the histories tried in this script, which only pretty-prints them
BasicResults == {b \in Bundles : b.urls = <<>> /\ b.screenshots = <<>>
                                   /\ b.model_actions = <<>> /\ b.errors = <<>>}

BasicRunReturns ==
    /\ pc = "running"
    /\ script = "basic"
    /\ \E b \in BasicResults, g \in GifAfterRun(gif_file) :
         /\ gif_file' = g
         /\ history' = <<b>>
         /\ ui' = ui \o <<[target |-> "main", el |-> "text_area",
                           text |-> "Debug Output (copy and paste this)", value |-> b]>>
         /\ calls' = calls \o <<Call("logging.info", "Agent run result:", "None")>>
    /\ pc' = "idle"
    /\ UNCHANGED <<script, task, run_exc, unhandled>>

BasicRunRaises ==
    /\ pc = "running"
    /\ script = "basic"
    /\ \E e \in RunErrors, g \in GifAfterRun(gif_file) :
         /\ gif_file' = g
         /\ run_exc' = <<e>>
         /\ ui' = ui \o <<basic_error(e)>>
    /\ pc' = "idle"
    /\ UNCHANGED <<script, task, history, calls, unhandled>>

Next ==
    \/ AppRunTaskEmpty
    \/ AppRunTask
    \/ AppRunReturns
    \/ AppRunRaises
    \/ BasicRunTaskEmpty
    \/ BasicRunTask
    \/ BasicRunReturns
    \/ BasicRunRaises

Spec == Init /\ [][Next]_vars

----------------------------------------------------------------------------
(* speed_up_gif on its own: any animation, any speed factor *)

GifFiles ==
    {NoFile, BadFile} \cup {GifOf(fs) : fs \in SeqsUpTo(Frames, MaxFrames) \ {<<>>}}

InitGif ==
    /\ pc = "gif"
    /\ script = "none"
    /\ task = ""
    /\ gif_file \in GifFiles
    /\ ui = <<>>
    /\ calls = <<>>
    /\ history = <<>>
    /\ run_exc = <<>>
    /\ unhandled = <<>>

\* gif_bytes = speed_up_gif("agent_history.gif", speed_factor=k); gif_container.image(gif_bytes)
SpeedUpGif ==
    /\ pc = "gif"
    /\ \E k \in 1..MaxFactor :
         LET r == speed_up_gif(gif_file, k)
         IN IF r.ok
            THEN /\ calls' = <<GifCall(k, "bytes")>>
                 /\ ui' = <<[target |-> "gif_container", el |-> "image",
                             text |-> "", value |-> r.value]>>
                 /\ unhandled' = <<>>
            ELSE /\ calls' = <<GifCall(k, "raised")>>
                 /\ ui' = <<>>
                 /\ unhandled' = <<r.exc>>
    /\ pc' = "idle"
    /\ UNCHANGED <<script, task, gif_file, history, run_exc>>

NextGif == SpeedUpGif

SpecGif == InitGif /\ [][NextGif]_vars

----------------------------------------------------------------------------
(* What is on the page, read back from the writes *)

IsMain(w) == w.target = "main"
IsBanner(w) == w.target = "final_result_container" /\ w.el \in {"error", "success"}
IsRun(c) == c.op = "agent.run"
IsGif(c) == c.op = "speed_up_gif"

\* the writes to the main page, in order
MainPage == SelectSeq(ui, IsMain)
\* the banners written to final_result_container, first to last
Banners == SelectSeq(ui, IsBanner)
\* the banner left on display
ShownBanner == Banners[Len(Banners)]
\* positions of the "#### Step k" headers
StepHeaders ==
    {i \in 1..Len(ui) : /\ ui[i].target = "main"
                        /\ ui[i].el = "markdown"
                        /\ \E k \in 1..(Len(ui) \div 6 + 1) :
                               ui[i].text = "#### Step " \o ToString(k)}
RunCalls == Len(SelectSeq(calls, IsRun))
GifCalls == Len(SelectSeq(calls, IsGif))
HasCall(op) == \E i \in 1..Len(calls) : calls[i].op = op

\* app.py's run returned a history / raised
ReturnedApp == script = "app" /\ history # <<>>
RaisedApp == script = "app" /\ run_exc # <<>>

\* the largest of the four list lengths, stated without the code's max
LongestOf(b) ==
    LET lens == {Len(b.action_names), Len(b.extracted_content),
                 Len(b.model_actions), Len(b.urls)}
    IN CHOOSE m \in lens : \A l \in lens : m >= l

----------------------------------------------------------------------------
(* Claims *)

\* C1: for every returned bundle the number of steps rendered is the largest of
\* len(action_names), len(extracted_content), len(model_actions), len(urls);
\* screenshots and errors do not count, no step has an ordinal beyond that
\* number, and with all four lists empty no step is rendered and the loop ends
\* normally (the Debug View that follows it is written).
C1_StepCount ==
    ReturnedApp =>
        LET b == history[1]
            n == LongestOf(b)
        IN /\ Cardinality(StepHeaders) = n
           /\ \A i \in StepHeaders :
                  \E k \in 1..n : ui[i].text = "#### Step " \o ToString(k)
           /\ \E i \in 1..Len(ui) : ui[i].el = "expander/json"
           /\ (b.action_names = <<>> /\ b.extracted_content = <<>>
                 /\ b.model_actions = <<>> /\ b.urls = <<>>) => StepHeaders = {}

\* C1 witness: lists of different lengths, more screenshots than steps
C1_Witness ==
    /\ ReturnedApp
    /\ Len(history[1].urls) = 2
    /\ Len(history[1].action_names) = 1
    /\ history[1].extracted_content = <<>>
    /\ Len(history[1].screenshots) > 2
    /\ history[1].errors # <<>>
    /\ Cardinality(StepHeaders) = 2

\* C2: step i (0-based) is written as ordinal i+1 followed by its action, URL,
\* extracted content and model action, each taken from its own list at i or
\* "N/A" when that list is shorter; the steps follow "### Steps" in increasing
\* i with nothing skipped, reordered or merged, and the Debug View follows them.
C2_StepFields ==
    ReturnedApp =>
        LET b == history[1]
            n == LongestOf(b)
            P == MainPage
            Pick(lst, i) == IF i < Len(lst) THEN lst[i + 1] ELSE "N/A"
        IN /\ Len(P) >= 6 * n + 2
           /\ P[1].text = "### Steps"
           /\ \A i \in 0..(n - 1) :
                /\ P[6 * i + 2].text = "#### Step " \o ToString(i + 1)
                /\ P[6 * i + 3].text = "**Action:** " \o Pick(b.action_names, i)
                /\ P[6 * i + 4].text = "**URL:** " \o Pick(b.urls, i)
                /\ P[6 * i + 5].text = "**Extracted Content:** " \o Pick(b.extracted_content, i)
                /\ P[6 * i + 6].text = "**Model Action:** " \o Pick(b.model_actions, i)
                /\ P[6 * i + 7].el = "divider"
           /\ P[6 * n + 2].el = "expander/json"

\* C2 witness: the scenario of the specification
C2_Witness ==
    /\ ReturnedApp
    /\ history[1].action_names = <<"click", "done">>
    /\ history[1].urls = <<"u1">>
    /\ history[1].extracted_content = <<"hello", "world">>
    /\ history[1].model_actions = <<"{}", "{}">>
    /\ history[1].errors = <<>>
    /\ MainPage[3].text = "**Action:** click"
    /\ MainPage[4].text = "**URL:** u1"
    /\ MainPage[9].text = "**Action:** done"
    /\ MainPage[10].text = "**URL:** N/A"
    /\ MainPage[11].text = "**Extracted Content:** world"

C7_Summary ==
    ReturnedApp =>
        LET b == history[1]
            n == Len(b.extracted_content)
            summary == IF n = 0 THEN "No result" ELSE b.extracted_content[n]
            prefix == IF Banners[1].el = "success"
                      THEN "Task Completed Successfully: " ELSE "Task Failed: "
        IN /\ Banners # <<>>
           /\ Banners[1].text = prefix \o summary

\* C7 witness: a failed verdict whose summary is the last of two extracts
C7_Witness ==
    /\ ReturnedApp
    /\ history[1].extracted_content = <<"hello", "world">>
    /\ history[1].urls = <<>>
    /\ Banners[1].text = "Task Failed: world"

C5_GifFailureIsolated ==
    (ReturnedApp /\ pc = "idle") =>
        LET b == history[1]
            n == Len(b.extracted_content)
            ok == b.errors = <<>> \/ \E i \in 1..Len(b.action_names) : b.action_names[i] = "done"
            summary == IF n = 0 THEN "No result" ELSE b.extracted_content[n]
        IN /\ unhandled = <<>>
           /\ ShownBanner.el = IF ok THEN "success" ELSE "error"
           /\ ShownBanner.text = (IF ok THEN "Task Completed Successfully: "
                                        ELSE "Task Failed: ") \o summary
           /\ Cardinality(StepHeaders) = LongestOf(b)

\* C6: a click with an empty task writes the validation error and nothing else:
\* no container is cleared and get_llm, Agent and the run are not called; the
\* run is only ever started, or waited for, with a non-empty task.
C6_EmptyTaskRejected ==
    /\ (script \in {"app", "basic"} /\ task = "") =>
          /\ pc = "idle"
          /\ Len(ui) = 1
          /\ ui[1].el = "error"
          /\ ui[1].text = "Please enter a task first!"
          /\ calls = <<>>
    /\ (pc = "running" \/ HasCall("get_llm") \/ HasCall("Agent") \/ HasCall("agent.run"))
          => task # ""

\* C6 witness: app.py's button clicked with no task
C6_Witness ==
    /\ script = "app"
    /\ task = ""
    /\ Len(ui) = 1
    /\ ui[1].text = "Please enter a task first!"

\* C8: speed_up_gif on an animation of n >= 1 frames that all carry a duration,
\* with factor k >= 1, encodes the same n frames in order with durations
\* floor(d[i] / k) and loop count 0; k = 1 leaves the durations as they are and
\* k = 2 turns [100, 100, 100] into [50, 50, 50].
C8_FloorDurations ==
    (/\ pc = "idle"
     /\ gif_file.exists
     /\ gif_file.decodable
     /\ \A f \in 1..Len(gif_file.frames) : "duration" \in DOMAIN gif_file.frames[f].info) =>
        /\ Len(calls) = 1
        /\ calls[1].op = "speed_up_gif"
        /\ calls[1].ret = "bytes"
        /\ unhandled = <<>>
        /\ Len(ui) = 1
        /\ LET k == calls[1].speed_factor
               n == Len(gif_file.frames)
               out == ui[1].value
               d(i) == gif_file.frames[i].info.duration
           IN /\ n >= 1 /\ k >= 1
              /\ Len(out.frames) = n
              /\ Len(out.duration) = n
              /\ \A i \in 1..n :
                    /\ out.frames[i] = gif_file.frames[i].pixels
                    /\ out.duration[i] >= 0
                    /\ out.duration[i] * k <= d(i)
                    /\ d(i) < (out.duration[i] + 1) * k
                    /\ (k = 1 => out.duration[i] = d(i))
              /\ out.loop = 0
              /\ (k = 2 /\ n = 3 /\ \A i \in 1..n : d(i) = 100)
                    => out.duration = <<50, 50, 50>>

\* C8 witness: [100, 100, 100] at factor 2 became [50, 50, 50]
C8_Witness ==
    /\ pc = "idle"
    /\ Len(calls) = 1
    /\ calls[1].speed_factor = 2
    /\ Len(gif_file.frames) = 3
    /\ \A f \in 1..3 : gif_file.frames[f].info = [duration |-> 100]
    /\ gif_file.frames[1].pixels # gif_file.frames[2].pixels
    /\ Len(ui) = 1
    /\ ui[1].value.duration = <<50, 50, 50>>

\* C9: within one Run Task action speed_up_gif is called at most once, only
\* after the run returned or raised, and only right after os.path.exists
\* answered True.
C9_GifReadOnce ==
    script = "app" =>
        /\ GifCalls <= 1
        /\ \A i \in 1..Len(calls) :
              calls[i].op = "speed_up_gif" =>
                  /\ i > 1
                  /\ calls[i - 1].op = "os.path.exists"
                  /\ calls[i - 1].ret = "True"
                  /\ \E j \in 1..(i - 1) : calls[j].op = "agent.run"
                  /\ (history # <<>> \/ run_exc # <<>>)

\* C10: get_llm("openai") builds the OpenAI client and never touches the Google
\* credentials; get_llm("gemini") calls setup_google_auth first and builds the
\* Gemini client only after it returned; any other key, "Gemini" included,
\* raises ValueError before any credentials or client call.
C10_GetLlm ==
    (calls # <<>> /\ calls[1].op = "get_llm") =>
        LET key == calls[1].arg
        IN /\ key = "openai" =>
                /\ ~HasCall("setup_google_auth")
                /\ ~HasCall("ChatGoogleGenerativeAI")
                /\ Len(calls) >= 2
                /\ calls[2].op = "ChatOpenAI"
                /\ calls[1].ret = IF calls[2].ret = "client" THEN "ChatOpenAI"
                                                            ELSE "ValidationError"
           /\ key = "gemini" =>
                /\ ~HasCall("ChatOpenAI")
                /\ Len(calls) >= 2
                /\ calls[2].op = "setup_google_auth"
                /\ calls[2].ret = "raised" =>
                      (Len(calls) = 2 /\ calls[1].ret = "TypeError")
                /\ calls[2].ret # "raised" =>
                      /\ Len(calls) >= 3
                      /\ calls[3].op = "ChatGoogleGenerativeAI"
                      /\ calls[1].ret = IF calls[3].ret = "client"
                                        THEN "ChatGoogleGenerativeAI" ELSE "ValidationError"
           /\ key \notin {"openai", "gemini"} =>
                /\ Len(calls) = 1
                /\ calls[1].ret = "ValueError"
                /\ pc = "idle"
                /\ script = "basic"
                /\ Len(ui) = 1
                /\ ui[1].text = "An error occurred: Unknown model type: " \o key

\* C10 witness: LLM_TYPE=Gemini reaches get_llm unnormalised and is rejected
C10_Witness ==
    /\ script = "basic"
    /\ calls # <<>>
    /\ calls[1].op = "get_llm"
    /\ calls[1].arg = "Gemini"
    /\ calls[1].ret = "ValueError"
    /\ Len(calls) = 1

====
